---- MODULE Spec2Model ----
(***************************************************************************)
(* Model of the ExpenseTracker agent: the Streamlit chat handler and       *)
(* run_agent loop of app.py, and the ledger tools of server.py             *)
(* (run_secure_query, add_expense, delete_expense) over the expenses       *)
(* table.                                                                  *)
(***************************************************************************)
EXTENDS Integers, Sequences, FiniteSets, TLC

(* ---------------------------------------------------------------- bounds *)
\* longest turn history explored (st.session_state.messages grows for ever)
MaxTurns == 4
\* number of expense ids the store can hand out (uuid_generate_v4 never runs out)
MaxIds == 2
\* largest batch of function calls in one model response
MaxCalls == 1
\* largest number of rows the store hands out identifiers for, in the runs
\* that fill the ledger of one tenant (BulkSpec)
MaxBulk == 21
\* largest batch of function calls in one model response, in the runs that
\* follow the order of a batch (BatchSpec)
MaxBatch == 2

(* ------------------------------------------------------------- strings *)
\* A Python str is a sequence of one-character strings.
LowerCase == <<"a","b","c","d","e","f","g","h","i","j","k","l","m",
               "n","o","p","q","r","s","t","u","v","w","x","y","z">>
UpperCase == <<"A","B","C","D","E","F","G","H","I","J","K","L","M",
               "N","O","P","Q","R","S","T","U","V","W","X","Y","Z">>

\* str.upper() on one character
UpperChar(c) ==
    IF \E i \in 1..26 : LowerCase[i] = c
    THEN UpperCase[CHOOSE i \in 1..26 : LowerCase[i] = c]
    ELSE c

\* str.upper()
Upper(s) == [i \in 1..Len(s) |-> UpperChar(s[i])]

\* the Python test  sub in s
Contains(sub, s) ==
    \E i \in 0..(Len(s) - Len(sub)) : SubSeq(s, i + 1, i + Len(sub)) = sub

\* " ".join(tokens)
RECURSIVE Join(_)
Join(tokens) ==
    IF tokens = <<>> THEN <<>>
    ELSE IF Len(tokens) = 1 THEN tokens[1]
    ELSE tokens[1] \o <<" ">> \o Join(Tail(tokens))

\* the words the model provider writes into sql_logic
T_SEMI     == <<";">>
T_AND      == <<"A","N","D">>
T_OR       == <<"O","R">>
T_TRUE     == <<"T","R","U","E">>
T_amount   == <<"a","m","o","u","n","t">>
T_GT       == <<">">>
T_10       == <<"1","0">>
T_drop     == <<"d","r","o","p">>
T_table    == <<"t","a","b","l","e">>
T_expenses == <<"e","x","p","e","n","s","e","s">>
T_INSERT   == <<"I","N","S","E","R","T">>
T_INTO     == <<"I","N","T","O">>
T_VALUES   == <<"V","A","L","U","E","S">>
T_COMMIT   == <<"C","O","M","M","I","T">>

\* the verbs of the check in run_secure_query
V_DROP   == <<"D","R","O","P">>
V_DELETE == <<"D","E","L","E","T","E">>
V_UPDATE == <<"U","P","D","A","T","E">>

(* ------------------------------------------------------------- the store *)
\* registered users (rows of the users table); expenses.user_id references them
Tenants == {"A", "B"}

\* the amounts add_expense is called with; a row written by an INSERT inside
\* sql_logic carries the amount 5
Amounts == {20}

\* datetime.now().strftime("%Y-%m-%d") and CURRENT_DATE, and a date of the past
Today == "2026-11-04"
Dates == {"2024-01-15"}

\* date=None, the default of add_expense
NoDate == "<None>"

\* the other columns add_expense is called with
MainCategories == {"Food"}
SubCategories == {"Dining"}
Descriptions == {"lunch"}

\* a column an INSERT leaves out
Null == "<NULL>"

\* a row of the expenses table
Row(id, user_id, amount, main_category, sub_category, description, date) ==
    [id |-> id, user_id |-> user_id, amount |-> amount,
     main_category |-> main_category, sub_category |-> sub_category,
     description |-> description, date |-> date]

\* the sql_logic values the model provider is given to choose from
L_none          == <<>>
L_filter        == <<T_AND, T_amount, T_GT, T_10>>
L_or            == <<T_OR, T_TRUE>>
L_drop          == <<T_SEMI, T_drop, T_table, T_expenses, T_SEMI, T_COMMIT>>
L_insert        == <<T_SEMI, T_INSERT, T_INTO, T_expenses, T_VALUES, <<"B">>>>
L_insert_commit == L_insert \o <<T_SEMI, T_COMMIT>>
SqlLogics == {L_none, L_filter, L_or, L_drop, L_insert, L_insert_commit}

\* the statements of one query string, split at the semicolons
RECURSIVE SplitStatements(_, _)
SplitStatements(tokens, cur) ==
    IF tokens = <<>> THEN <<cur>>
    ELSE IF Head(tokens) = T_SEMI
         THEN <<cur>> \o SplitStatements(Tail(tokens), <<>>)
         ELSE SplitStatements(Tail(tokens), Append(cur, Head(tokens)))

\* keywords and unquoted names are case-insensitive in SQL
Keywords(stmt) == [i \in 1..Len(stmt) |-> Upper(stmt[i])]

\* what follows  SELECT * FROM expenses WHERE user_id = '<user_id>'
ParseSelectTail(stmt) ==
    CASE stmt = <<>>                                      -> "own"
      [] Keywords(stmt) = Keywords(L_filter)              -> "own_gt10"
      [] Keywords(stmt) = Keywords(L_or)                  -> "all"
      [] OTHER                                            -> "syntax_error"

\* a statement after a semicolon; an INSERT names the tenant of the new row
ParseStatement(stmt) ==
    CASE Keywords(stmt) = <<V_DROP, Upper(T_table), Upper(T_expenses)>> ->
            [kind |-> "drop", tenant |-> ""]
      [] Keywords(stmt) = <<T_COMMIT>> ->
            [kind |-> "commit", tenant |-> ""]
      [] /\ Len(stmt) = 5
         /\ SubSeq(Keywords(stmt), 1, 4) = <<T_INSERT, T_INTO, Upper(T_expenses), T_VALUES>>
         /\ \E t \in Tenants : stmt[5] = <<t>> ->
            [kind |-> "insert", tenant |-> stmt[5][1]]
      [] OTHER ->
            [kind |-> "syntax_error", tenant |-> ""]

\* the server parses the whole query string before it runs any of it
ParseQuery(sql_logic) ==
    LET stmts == SplitStatements(sql_logic, <<>>)
        rest  == [i \in 1..(Len(stmts) - 1) |-> ParseStatement(stmts[i + 1])]
    IN  [tail |-> ParseSelectTail(stmts[1]),
         rest |-> rest,
         ok   |-> /\ ParseSelectTail(stmts[1]) # "syntax_error"
                  /\ \A i \in 1..Len(rest) : rest[i].kind # "syntax_error"]

\* the parse of each sql_logic of the model
Parsed == [l \in SqlLogics |-> ParseQuery(l)]

\* the rows  SELECT * FROM expenses WHERE user_id = '<user_id>' <tail>  returns
SelectRows(rows, user_id, tail) ==
    CASE tail = "own"      -> {r \in rows : r.user_id = user_id}
      [] tail = "own_gt10" -> {r \in rows : r.user_id = user_id /\ r.amount > 10}
      [] tail = "all"      -> {r \in rows : r.user_id = user_id \/ TRUE}
      [] OTHER             -> {}

\* One statement run inside the connection's transaction. st.txn is what the
\* transaction sees, st.db what is committed, st.out the last statement's
\* result set (has = FALSE: the statement returns no rows to fetch).
RunStatement(st, stmt) ==
    CASE stmt.kind = "insert" ->
            [st EXCEPT !.txn = @ \cup {Row(st.txn_id, stmt.tenant, 5, Null, Null,
                                            Null, Today)},
                       !.txn_id = @ + 1,
                       !.out = [has |-> FALSE, rows |-> {}]]
      [] stmt.kind = "drop" ->
            [st EXCEPT !.txn = {}, !.out = [has |-> FALSE, rows |-> {}]]
      [] stmt.kind = "commit" ->
            [st EXCEPT !.db = st.txn, !.db_id = st.txn_id,
                       !.out = [has |-> FALSE, rows |-> {}]]
      [] OTHER -> st

RECURSIVE RunStatements(_, _)
RunStatements(st, stmts) ==
    IF stmts = <<>> THEN st
    ELSE RunStatements(RunStatement(st, Head(stmts)), Tail(stmts))

\* cursor.execute(full_query) of psycopg2 on a connection that is not in
\* autocommit mode: a query string with a syntax error runs nothing; the
\* statements of the others run in the open transaction, and what is not
\* committed when the connection goes away is rolled back.
ExecuteQuery(rows, next, user_id, sql_logic) ==
    LET q   == Parsed[sql_logic]
        st0 == [txn |-> rows, txn_id |-> next, db |-> rows, db_id |-> next,
                out |-> [has |-> TRUE, rows |-> SelectRows(rows, user_id, q.tail)]]
        st  == RunStatements(st0, q.rest)
    IN  IF q.ok
        THEN [error |-> FALSE, out |-> st.out, db |-> st.db, db_id |-> st.db_id]
        ELSE [error |-> TRUE, out |-> [has |-> FALSE, rows |-> {}],
              db |-> rows, db_id |-> next]

(* -------------------------------------------------------------- the tools *)
\* Every tool returns the text handed back to the model provider. A Markdown
\* table is kept as the rows it lists; id is the identifier a text quotes.
Text(t) == [text |-> t, rows |-> {}, id |-> 0]
MarkdownTable(rows) == [text |-> "table", rows |-> rows, id |-> 0]
SavedText(eid) == [text |-> "Saved. ID: ", rows |-> {}, id |-> eid]

\* What a call of a tool function comes to: the text it returns, or raised =
\* TRUE when an exception leaves the function; the committed rows and the next
\* identifier after it; executed tells whether a statement reached the store;
\* conn is "closed" when the function called conn.close() on the connection it
\* opened, "open" when it returned or raised without, "none" when it never
\* got one.
Returns(result, rows, next, executed, conn) ==
    [result |-> result, rows |-> rows, next |-> next, executed |-> executed,
     conn |-> conn, raised |-> FALSE]
Raises(rows, next, conn) ==
    [result |-> Text("<exception>"), rows |-> rows, next |-> next,
     executed |-> FALSE, conn |-> conn, raised |-> TRUE]

\* what the store does to a call: "none", or psycopg2.connect raises
\* ("connect"), or cursor.execute raises ("execute": the server is gone, a
\* value does not fit its column, user_id is no row of users)
Faults == {"none", "connect", "execute"}

\* the safety check of run_secure_query
IsRejected(sql_logic) ==
    \/ Contains(V_DROP, Upper(Join(sql_logic)))
    \/ Contains(V_DELETE, Upper(Join(sql_logic)))
    \/ Contains(V_UPDATE, Upper(Join(sql_logic)))

\* the verdict of the check on each sql_logic of the model
Rejects == [l \in SqlLogics |-> IsRejected(l)]

\* run_secure_query(user_id, sql_logic) on the committed rows
run_secure_query(rows, next, user_id, sql_logic, fault) ==
    IF fault = "connect" THEN Raises(rows, next, "none")
    ELSE IF Rejects[sql_logic]
    THEN Returns(Text("Error: This tool is for Read-Only analysis."),
                 rows, next, FALSE, "open")
    ELSE IF fault = "execute"
    THEN Returns(Text("Query Error"), rows, next, FALSE, "open")
    ELSE LET q == ExecuteQuery(rows, next, user_id, sql_logic) IN
         IF q.error \/ ~q.out.has
         THEN Returns(Text("Query Error"), q.db, q.db_id, TRUE, "open")
         ELSE Returns(IF q.out.rows = {}
                      THEN Text("No data found matching your query.")
                      ELSE MarkdownTable(q.out.rows),
                      q.db, q.db_id, TRUE, "closed")

\* the sum of the amounts of a set of rows
RECURSIVE SumAmounts(_)
SumAmounts(rows) ==
    IF rows = {} THEN 0
    ELSE LET r == CHOOSE x \in rows : TRUE IN r.amount + SumAmounts(rows \ {r})

\* SELECT main_category, SUM(amount) ... WHERE user_id = %s GROUP BY main_category
CategoryTotals(rows, user_id) ==
    LET own == {r \in rows : r.user_id = user_id} IN
    {[main_category |-> c, total |-> SumAmounts({r \in own : r.main_category = c})] :
        c \in {r.main_category : r \in own}}

\* summarize_expenses(user_id): the report lists one line for each category
summarize_expenses(rows, next, user_id, fault) ==
    IF fault = "connect" THEN Raises(rows, next, "none")
    ELSE IF fault = "execute" THEN Raises(rows, next, "open")
    ELSE Returns([text |-> "Spending Summary", rows |-> CategoryTotals(rows, user_id),
                  id |-> 0],
                 rows, next, TRUE, "closed")

\* StoredDate that keeps an empty date as it came
StoredDate_AsGiven(date) == IF date = NoDate THEN Today ELSE date

\* if not date: date = datetime.now().strftime("%Y-%m-%d")
StoredDate(date) == IF date = NoDate \/ date = "" THEN Today ELSE date

\* add_expense(user_id, amount, main_category, sub_category, description, date)
add_expense(rows, next, user_id, amount, main_category, sub_category, description, date, fault) ==
    IF fault = "connect" THEN Raises(rows, next, "none")
    ELSE IF fault = "execute" THEN Raises(rows, next, "open")
    ELSE Returns(SavedText(next),
                 rows \cup {Row(next, user_id, amount, main_category, sub_category,
                                description, StoredDate(date))},
                 next + 1, TRUE, "closed")

\* DeleteMatch with the owner test left out of the WHERE clause
DeleteMatch_AnyOwner(rows, user_id, expense_id) ==
    {r \in rows : r.id = expense_id}

\* the rows  DELETE FROM expenses WHERE id = %s AND user_id = %s  removes
DeleteMatch(rows, user_id, expense_id) ==
    {r \in rows : r.id = expense_id /\ r.user_id = user_id}

\* delete_expense that reports the row deleted and never commits the DELETE
delete_expense_NoCommit(rows, next, user_id, expense_id, fault) ==
    LET gone == DeleteMatch(rows, user_id, expense_id) IN
    IF fault = "connect" THEN Raises(rows, next, "none")
    ELSE IF fault = "execute"
    THEN Returns(Text("Error: "), rows, next, FALSE, "open")
    ELSE IF gone # {}
    THEN Returns(Text("Expense deleted successfully."), rows, next, TRUE, "closed")
    ELSE Returns(Text("Error: Expense not found or you don't own it."), rows, next,
                 TRUE, "closed")

\* delete_expense(user_id, expense_id)
delete_expense(rows, next, user_id, expense_id, fault) ==
    LET gone == DeleteMatch(rows, user_id, expense_id) IN
    IF fault = "connect" THEN Raises(rows, next, "none")
    ELSE IF fault = "execute"
    THEN Returns(Text("Error: "), rows, next, FALSE, "open")
    ELSE IF gone # {}
    THEN Returns(Text("Expense deleted successfully."), rows \ gone, next, TRUE,
                 "closed")
    ELSE Returns(Text("Error: Expense not found or you don't own it."), rows, next,
                 TRUE, "closed")

\* the tools the model provider of the page is given to choose from
ToolNames == {"run_secure_query", "add_expense", "delete_expense"}

\* the arguments of a call, as one record for every tool
Args(user_ids, sql_logics, amounts, expense_ids, main_categories, dates) ==
    [user_id : user_ids, sql_logic : sql_logics, amount : amounts,
     expense_id : expense_ids, main_category : main_categories,
     sub_category : SubCategories, description : Descriptions, date : dates]

\* the arguments the model provider can put into a call of the named tool
ArgsOf(name) ==
    CASE name = "run_secure_query" ->
            Args(Tenants, SqlLogics, {0}, {0}, {"Food"}, {NoDate})
      [] name = "add_expense" ->
            Args(Tenants, {<<>>}, Amounts, {0}, {"Food"}, {NoDate})
      [] name = "delete_expense" ->
            Args(Tenants, {<<>>}, {0}, 1..MaxIds, {"Food"}, {NoDate})

\* The tool server serves one call_tool request: it runs the tool function,
\* and an exception that leaves the function goes back as the text of an
\* error result.
call_tool(rows, next, name, args, fault) ==
    LET out ==
        CASE name = "run_secure_query" ->
                run_secure_query(rows, next, args.user_id, args.sql_logic, fault)
          [] name = "summarize_expenses" ->
                summarize_expenses(rows, next, args.user_id, fault)
          [] name = "add_expense" ->
                add_expense(rows, next, args.user_id, args.amount, args.main_category,
                            args.sub_category, args.description, args.date, fault)
          [] name = "delete_expense" ->
                delete_expense(rows, next, args.user_id, args.expense_id, fault)
    IN  IF out.raised
        THEN [out EXCEPT !.result = Text("Error executing tool")]
        ELSE out

(* --------------------------------------------------------- the chat page *)
\* Python values stored as the content of a turn: a str, or None (the text of
\* a model response that carries no text part)
PyStr(s) == <<"str", s>>
PyNone == <<"NoneType", "">>

\* str(x)
Str(x) == IF x = PyNone THEN "None" ELSE x[2]

Prompts == {"prompt"}
ResponseTexts == {PyStr("answer"), PyNone}

\* st.session_state.user_id = None
NoUser == "<None>"

\* no tool call dispatched yet in this round
NoCall == [name |-> "none",
           args |-> [user_id |-> "", sql_logic |-> <<>>, amount |-> 0, expense_id |-> 0,
                     main_category |-> "", sub_category |-> "", description |-> "",
                     date |-> NoDate],
           fault |-> "none", executed |-> FALSE, before |-> {}, result |-> Text(""),
           conn |-> "none", raised |-> FALSE, next_before |-> 0]

\* the record of a call of tool name that came to out on the rows before
Served(name, args, fault, rows, next, out) ==
    [name |-> name, args |-> args, fault |-> fault, executed |-> out.executed,
     before |-> rows, result |-> out.result, conn |-> out.conn,
     raised |-> out.raised, next_before |-> next]

\* list_tools has not returned in this call of run_agent
NotListed == {"<unset>"}

\* what the tool server advertises: its tools, or none at all
Advertised == {ToolNames, {}}

\* no response has been returned from
NoResponse == [function_calls |-> <<>>, text |-> PyNone, none |-> TRUE]

VARIABLES
    user_id,         \* st.session_state.user_id
    messages,        \* st.session_state.messages
    pc,              \* where the script is: "idle", or inside run_agent
    user_prompt,     \* the prompt run_agent was called with
    chat_history,    \* history= of client.chats.create
    first_message,   \* what the first chat.send_message sent
    response,        \* names of response.function_calls, in the order received
    parts,           \* the parts list of the current round
    results_message, \* the parts of a chat.send_message(parts) that has not returned yet
    ledger,          \* committed rows of the expenses table
    next_id,         \* the next identifier the store generates
    last_call,       \* history variable: the tool call dispatched last in this round
    tools_run,       \* history variable: a tool call ran in the current or last exchange
    exchanges,       \* history variable: exchanges ended so far
    answered,        \* history variable: exchanges that ended with an answer
    last_outcome,    \* history variable: "answered" or "failed", how the last one ended
    turns_before,    \* history variable: messages before the last prompt was appended
    returned,        \* history variable: the response run_agent returned from
    tools,           \* the tool names of  tools = await session.list_tools()
    sent             \* history variable: the current or last exchange sent the model a message

vars == <<user_id, messages, pc, user_prompt, chat_history, first_message, response,
          parts, results_message, ledger, next_id, last_call, tools_run, exchanges,
          answered, last_outcome, turns_before, returned, tools, sent>>

session_vars == <<user_id, messages>>
store_vars == <<ledger, next_id>>
chat_vars == <<chat_history, first_message>>
round_vars == <<response, parts, results_message, last_call>>
count_vars == <<exchanges, answered, last_outcome>>
trace_vars == <<returned>>
listing_vars == <<tools, sent>>

Init ==
    /\ user_id = NoUser
    /\ messages = <<>>
    /\ pc = "idle"
    /\ user_prompt = ""
    /\ chat_history = <<>>
    /\ first_message = ""
    /\ response = <<>>
    /\ parts = <<>>
    /\ results_message = <<>>
    /\ ledger = {}
    /\ next_id = 1
    /\ last_call = NoCall
    /\ tools_run = FALSE
    /\ exchanges = 0
    /\ answered = 0
    /\ last_outcome = "none"
    /\ turns_before = <<>>
    /\ returned = NoResponse
    /\ tools = NotListed
    /\ sent = FALSE

\* the Log In button, with credentials that match user u
LogIn(u) ==
    /\ pc = "idle"
    /\ user_id = NoUser
    /\ user_id' = u
    /\ UNCHANGED <<messages, pc, user_prompt, chat_vars, round_vars, store_vars,
                   tools_run, count_vars, turns_before, trace_vars, listing_vars>>

\* the Log Out button
LogOut ==
    /\ pc = "idle"
    /\ user_id # NoUser
    /\ user_id' = NoUser
    /\ UNCHANGED <<messages, pc, user_prompt, chat_vars, round_vars, store_vars,
                   tools_run, count_vars, turns_before, trace_vars, listing_vars>>

\* AppendPrompt that puts the new turn in front of the others
AppendPrompt_Front(msgs, prompt) ==
    <<[role |-> "user", content |-> PyStr(prompt)]>> \o msgs

\* st.session_state.messages.append({"role": "user", "content": prompt})
AppendPrompt(msgs, prompt) ==
    Append(msgs, [role |-> "user", content |-> PyStr(prompt)])

\* AppendAnswer that records the answer twice
AppendAnswer_Twice(msgs, res) ==
    Append(Append(msgs, [role |-> "assistant", content |-> res]),
           [role |-> "assistant", content |-> res])

\* st.session_state.messages.append({"role": "assistant", "content": res})
AppendAnswer(msgs, res) ==
    Append(msgs, [role |-> "assistant", content |-> res])

\* OnFailure that takes the unanswered prompt back out of the history
OnFailure_DropPrompt(msgs) == SubSeq(msgs, 1, Len(msgs) - 1)

\* the except branch of the chat handler: st.error only
OnFailure(msgs) == msgs

\* BuildHistory over all of st.session_state.messages, the prompt included
BuildHistory_WithPrompt(msgs) ==
    [i \in 1..Len(msgs) |->
        [role |-> IF msgs[i].role = "assistant" THEN "model" ELSE "user",
         text |-> Str(msgs[i].content)]]

\* the history list run_agent builds from st.session_state.messages[:-1]
BuildHistory(msgs) ==
    [i \in 1..(Len(msgs) - 1) |->
        [role |-> IF msgs[i].role = "assistant" THEN "model" ELSE "user",
         text |-> Str(msgs[i].content)]]

\* st.chat_input returns a prompt: the user turn is appended, run_agent is called
ChatInput(prompt) ==
    /\ pc = "idle"
    /\ user_id # NoUser
    /\ Len(messages) + 2 <= MaxTurns
    /\ messages' = AppendPrompt(messages, prompt)
    /\ turns_before' = messages
    /\ user_prompt' = prompt
    /\ tools_run' = FALSE
    /\ returned' = NoResponse
    /\ tools' = NotListed
    /\ sent' = FALSE
    /\ pc' = "start"
    /\ UNCHANGED <<user_id, chat_vars, round_vars, store_vars, count_vars>>

\* run_agent up to list_tools: connect, await session.initialize(),
\* tools = await session.list_tools()
Discover(advertised) ==
    /\ pc = "start"
    /\ tools' = advertised
    /\ pc' = "listed"
    /\ UNCHANGED <<session_vars, user_prompt, chat_vars, round_vars, store_vars,
                   tools_run, count_vars, turns_before, trace_vars, sent>>

\* GeminiTools that declares the tools of the server whatever was listed
GeminiTools_Fixed(listed) == ToolNames

\* f_decls / gemini_tools: one function declaration for each tool listed
GeminiTools(listed) == {t \in ToolNames : t \in listed}

\* OpenChat that does not wait for list_tools
OpenChat_Unlisted ==
    /\ pc \in {"start", "listed"}
    /\ chat_history' = BuildHistory(messages)
    /\ first_message' = user_prompt
    /\ sent' = TRUE
    /\ pc' = "model"
    /\ UNCHANGED <<session_vars, user_prompt, round_vars, store_vars, tools_run,
                   count_vars, turns_before, trace_vars, tools>>

\* run_agent from there to the first send_message: build the declarations and
\* the history, create the chat, send the prompt
OpenChat ==
    /\ pc = "listed"
    /\ chat_history' = BuildHistory(messages)
    /\ first_message' = user_prompt
    /\ sent' = TRUE
    /\ pc' = "model"
    /\ UNCHANGED <<session_vars, user_prompt, round_vars, store_vars, tools_run,
                   count_vars, turns_before, trace_vars, tools>>

\* the sequences of 1..n elements of S
RECURSIVE SeqsUpTo(_, _)
SeqsUpTo(S, n) ==
    IF n = 0 THEN {}
    ELSE {<<x>> : x \in S} \cup SeqsUpTo(S, n - 1)
         \cup {Append(q, x) : q \in SeqsUpTo(S, n - 1), x \in S}

\* the function calls a response can carry: none, or a batch of 1..n
FunctionCalls(n) == {<<>>} \cup SeqsUpTo(ToolNames, n)

\* LoopContinues that takes a single function call for none
LoopContinues_Single(function_calls) == Len(function_calls) > 1

\* while response.function_calls:
LoopContinues(function_calls) == function_calls # <<>>

\* send_message returns a response with function calls, each of a function
\* declared to the chat: the loop body starts
ModelProposes(names) ==
    /\ pc = "model"
    /\ \A i \in 1..Len(names) : names[i] \in GeminiTools(tools)
    /\ LoopContinues(names)
    /\ response' = names
    /\ parts' = <<>>
    /\ results_message' = <<>>
    /\ last_call' = NoCall
    /\ pc' = "tools"
    /\ UNCHANGED <<session_vars, user_prompt, chat_vars, store_vars, tools_run,
                   count_vars, turns_before, trace_vars, listing_vars>>

\* one pass of  for call in response.function_calls ; the arguments of the call
\* are the model provider's choice
CallTool(args) ==
    /\ pc = "tools"
    /\ Len(parts) < Len(response)
    /\ LET name == response[Len(parts) + 1] IN
       \E res \in {call_tool(ledger, next_id, name, args, "none")} :
           /\ args \in ArgsOf(name)
           /\ res.next <= MaxIds + 1
           /\ ledger' = res.rows
           /\ next_id' = res.next
           /\ parts' = Append(parts, [name |-> name, result |-> res.result])
           /\ last_call' = Served(name, args, "none", ledger, next_id, res)
    /\ tools_run' = TRUE
    /\ UNCHANGED <<session_vars, pc, user_prompt, chat_vars, response, results_message,
                   count_vars, turns_before, trace_vars, listing_vars>>

\* SendParts that leaves the for loop after the first call
SendParts_Early ==
    /\ pc = "tools"
    /\ Len(parts) >= 1
    /\ results_message' = parts
    /\ response' = <<>>
    /\ parts' = <<>>
    /\ last_call' = NoCall
    /\ pc' = "model"
    /\ UNCHANGED <<session_vars, user_prompt, chat_vars, store_vars, tools_run,
                   count_vars, turns_before, trace_vars, listing_vars>>

\* response = chat.send_message(parts), once the batch is through
SendParts ==
    /\ pc = "tools"
    /\ Len(parts) = Len(response)
    /\ results_message' = parts
    /\ response' = <<>>
    /\ parts' = <<>>
    /\ last_call' = NoCall
    /\ pc' = "model"
    /\ UNCHANGED <<session_vars, user_prompt, chat_vars, store_vars, tools_run,
                   count_vars, turns_before, trace_vars, listing_vars>>

\* send_message returns a response that ends the loop: run_agent returns
\* response.text and the handler appends the assistant turn
ModelFinal(names, text) ==
    /\ pc = "model"
    /\ ~LoopContinues(names)
    /\ returned' = [function_calls |-> names, text |-> text, none |-> FALSE]
    /\ messages' = AppendAnswer(messages, text)
    /\ pc' = "idle"
    /\ chat_history' = <<>>
    /\ first_message' = ""
    /\ results_message' = <<>>
    /\ exchanges' = exchanges + 1
    /\ answered' = answered + 1
    /\ last_outcome' = "answered"
    /\ UNCHANGED <<user_id, user_prompt, response, parts, last_call, store_vars,
                   tools_run, turns_before, listing_vars>>

\* an exception escapes run_agent (the tool server or the model provider
\* fails): the handler's except branch runs
ExchangeFails ==
    /\ pc \in {"start", "listed", "model", "tools"}
    /\ messages' = OnFailure(messages)
    /\ pc' = "idle"
    /\ chat_history' = <<>>
    /\ first_message' = ""
    /\ response' = <<>>
    /\ parts' = <<>>
    /\ results_message' = <<>>
    /\ last_call' = NoCall
    /\ exchanges' = exchanges + 1
    /\ last_outcome' = "failed"
    /\ UNCHANGED <<user_id, user_prompt, answered, store_vars, tools_run, turns_before,
                   trace_vars, listing_vars>>

Next ==
    \/ \E u \in Tenants : LogIn(u)
    \/ LogOut
    \/ \E p \in Prompts : ChatInput(p)
    \/ \E advertised \in Advertised : Discover(advertised)
    \/ OpenChat
    \/ \E names \in FunctionCalls(MaxCalls) : ModelProposes(names)
    \/ \E name \in ToolNames : \E args \in ArgsOf(name) : CallTool(args)
    \/ SendParts
    \/ \E names \in FunctionCalls(MaxCalls) : \E text \in ResponseTexts :
            ModelFinal(names, text)
    \/ ExchangeFails

Spec == Init /\ [][Next]_vars

\* the steps of asyncio.run(run_agent(...)) and of the handler around it
RunAgentStep ==
    \/ \E advertised \in Advertised : Discover(advertised)
    \/ OpenChat
    \/ \E names \in FunctionCalls(MaxCalls) : ModelProposes(names)
    \/ \E name \in ToolNames : \E args \in ArgsOf(name) : CallTool(args)
    \/ SendParts
    \/ \E names \in FunctionCalls(MaxCalls) : \E text \in ResponseTexts :
            ModelFinal(names, text)
    \/ ExchangeFails

\* the event loop runs the coroutine on: an exchange that can take a step
\* takes one (which step is up to the model provider and the transport)
FairSpec == Spec /\ WF_vars(RunAgentStep)

\* The page with batches of up to MaxBatch calls; each call carries the plain
\* arguments of its tool, for either tenant.
PlainArgs(name) ==
    {a \in ArgsOf(name) : a.sql_logic = L_none /\ a.expense_id \in {0, 1}}

BatchNext ==
    \/ \E u \in Tenants : LogIn(u)
    \/ LogOut
    \/ \E p \in Prompts : ChatInput(p)
    \/ \E advertised \in Advertised : Discover(advertised)
    \/ OpenChat
    \/ \E names \in FunctionCalls(MaxBatch) : ModelProposes(names)
    \/ \E name \in ToolNames : \E args \in PlainArgs(name) : CallTool(args)
    \/ SendParts
    \/ \E names \in FunctionCalls(MaxBatch) : \E text \in ResponseTexts :
            ModelFinal(names, text)
    \/ ExchangeFails

BatchSpec == Init /\ [][BatchNext]_vars

(* ------------------------------------------------------- the tool server *)
\* the tools a client of the tool server can call
ServerTools == ToolNames \cup {"summarize_expenses"}

\* the arguments a client can put into a call of the named tool
ServerArgsOf(name) ==
    CASE name = "run_secure_query" ->
            Args(Tenants, SqlLogics, {0}, {0}, {"Food"}, {NoDate})
      [] name = "summarize_expenses" ->
            Args(Tenants, {<<>>}, {0}, {0}, {"Food"}, {NoDate})
      [] name = "add_expense" ->
            Args(Tenants, {<<>>}, Amounts, {0}, MainCategories, {NoDate, ""} \cup Dates)
      [] name = "delete_expense" ->
            Args(Tenants, {<<>>}, {0}, 1..MaxIds, {"Food"}, {NoDate})

\* mcp.run() serves one call_tool request of a client, while the store has
\* handed out no more than cap identifiers
ServeWithin(cap, name, args, fault) ==
    \E res \in {call_tool(ledger, next_id, name, args, fault)} :
    /\ res.next <= cap + 1
    /\ ledger' = res.rows
    /\ next_id' = res.next
    /\ last_call' = Served(name, args, fault, ledger, next_id, res)
    /\ UNCHANGED <<session_vars, pc, user_prompt, chat_vars, response, parts,
                   results_message, tools_run, count_vars, turns_before,
                   trace_vars, listing_vars>>

Serve(name, args, fault) == ServeWithin(MaxIds, name, args, fault)

ServerNext ==
    \E name \in ServerTools : \E args \in ServerArgsOf(name) : \E fault \in Faults :
        Serve(name, args, fault)

\* the tool server on its own, serving the calls of any client
ServerSpec == Init /\ [][ServerNext]_vars

\* the calls of a client that fills the ledger of tenant A and reads it
BulkArgsOf(name) ==
    CASE name = "run_secure_query" ->
            Args(Tenants, {L_none, L_filter, L_or, L_drop}, {0}, {0}, {"Food"}, {NoDate})
      [] name = "add_expense" ->
            Args({"A"}, {<<>>}, Amounts, {0}, {"Food"}, {NoDate})

BulkNext ==
    \E name \in {"run_secure_query", "add_expense"} : \E args \in BulkArgsOf(name) :
        ServeWithin(MaxBulk, name, args, "none")

\* the tool server, serving that client
BulkSpec == Init /\ [][BulkNext]_vars

(* ------------------------------------------------------------ properties *)
\* the result of the tool call dispatched last
LastResult == parts[Len(parts)].result

\* C1: a run_secure_query call issued with user_id = A returns only rows whose
\* user_id is A, whatever sql_logic is.
C1_OnlyOwnRows ==
    last_call.name = "run_secure_query" =>
        \A r \in LastResult.rows : r.user_id = last_call.args.user_id

\* C2: in an exchange of the session of tenant A, every row a dispatched
\* add_expense inserts carries tenant A and every row a dispatched
\* delete_expense removes is a row of A, whatever user_id the call names.
C2_WritesBoundToSession ==
    last_call.name \in {"add_expense", "delete_expense"} =>
        /\ \A r \in ledger \ last_call.before : r.user_id = user_id
        /\ \A r \in last_call.before \ ledger : r.user_id = user_id

\* the six verbs the sandbox is to refuse
MutatingVerbs ==
    {V_DROP, V_DELETE, V_UPDATE, T_INSERT,
     <<"A","L","T","E","R">>, <<"T","R","U","N","C","A","T","E">>}

\* the sql_logic values that hold a mutating verb in some letter case, or open
\* a second statement
ForbiddenLogics ==
    {l \in SqlLogics :
        \/ \E v \in MutatingVerbs : Contains(v, Upper(Join(l)))
        \/ \E i \in 1..Len(l) : l[i] = T_SEMI}

ErrorTexts == {"Error: This tool is for Read-Only analysis.", "Query Error"}

\* C3: a sql_logic with one of the verbs DROP, DELETE, UPDATE, INSERT, ALTER,
\* TRUNCATE in any case, or with a second statement, gets an error result and
\* never reaches the store.
C3_MutatingVerbsRejected ==
    (/\ last_call.name = "run_secure_query"
     /\ last_call.args.sql_logic \in ForbiddenLogics) =>
        /\ LastResult.text \in ErrorTexts
        /\ ~last_call.executed

\* C4: the committed ledger after run_secure_query returns is the ledger
\* before the call, whatever the arguments and the outcome.
C4_QueryLeavesLedger ==
    last_call.name = "run_secure_query" => ledger = last_call.before

\* delete_expense was called by one tenant with the id of another tenant's row
ForeignDelete ==
    /\ last_call.name = "delete_expense"
    /\ \E r \in last_call.before :
          /\ r.id = last_call.args.expense_id
          /\ r.user_id # last_call.args.user_id

\* C5: delete_expense with user_id = A and the id of a row of tenant B # A
\* returns the not-found/not-owned text and changes no row of the ledger.
C5_ForeignDeleteRefused ==
    ForeignDelete =>
        /\ LastResult = Text("Error: Expense not found or you don't own it.")
        /\ ledger = last_call.before

\* a foreign delete was refused while the ledger held another row as well
C5_Witness ==
    /\ ForeignDelete
    /\ Cardinality(last_call.before) >= 2
    /\ LastResult.text = "Error: Expense not found or you don't own it."

\* C6: every exchange ends, also when the model proposes tool calls in every
\* response.
C6_ExchangeEnds == (pc # "idle") ~> (pc = "idle")

\* C7 as stated: after K exchanges the history has 2K turns if the K-th
\* produced an answer and 2K - 1 turns if it failed.
C7_TwoTurnsPerExchange ==
    (pc = "idle" /\ exchanges > 0) =>
        Len(messages) = IF last_outcome = "answered"
                        THEN 2 * exchanges ELSE 2 * exchanges - 1

\* C7 amended: after K exchanges of which S produced an answer the history
\* has K + S turns (one per prompt, one per answer).
C7_TurnPerPromptAndAnswer ==
    pc = "idle" => Len(messages) = exchanges + answered

\* an answered exchange that follows a failed one
C7_Witness ==
    /\ pc = "idle"
    /\ exchanges = 2
    /\ answered = 1
    /\ last_outcome = "answered"

\* C8: after an exchange that failed, the history is the history from before
\* the exchange followed by the user's prompt turn, and nothing else.
C8_FailureKeepsPrompt ==
    (pc = "idle" /\ last_outcome = "failed") =>
        messages = Append(turns_before, [role |-> "user", content |-> PyStr(user_prompt)])

\* an exchange failed after a tool call had run, with earlier turns in the history
C8_Witness ==
    /\ pc = "idle"
    /\ last_outcome = "failed"
    /\ tools_run
    /\ Len(turns_before) >= 2

\* C9: whenever nobody is logged in (at the start and after Log Out) the turn
\* history is empty.
C9_LogoutDiscardsHistory ==
    user_id = NoUser => messages = <<>>

\* C10: while an exchange is open, the history given to the chat is the stored
\* turns without the last one, in order, assistant turns under the role
\* "model" and user turns under "user"; the prompt is the first message sent
\* and is the turn left out.
C10_ReplayedHistory ==
    pc \in {"model", "tools"} =>
        /\ Len(chat_history) = Len(messages) - 1
        /\ \A i \in 1..Len(chat_history) :
              /\ messages[i].role = "assistant" => chat_history[i].role = "model"
              /\ messages[i].role = "user" => chat_history[i].role = "user"
              /\ chat_history[i].text = Str(messages[i].content)
        /\ first_message = user_prompt
        /\ messages[Len(messages)] = [role |-> "user", content |-> PyStr(first_message)]

\* an exchange is open whose replayed history holds an assistant turn
C10_Witness ==
    /\ pc = "model"
    /\ \E i \in 1..Len(chat_history) : chat_history[i].role = "model"

\* C11: in a round the calls are dispatched one at a time in the order
\* received, each once; the parts sent back hold one result per proposed call,
\* in the same order and under the same name, and are sent only when the
\* batch is through.
C11_BatchInOrder ==
    /\ [](pc = "tools" =>
            /\ Len(parts) <= Len(response)
            /\ \A i \in 1..Len(parts) : parts[i].name = response[i])
    /\ [][(pc = "tools" /\ pc' = "tools") =>
            /\ response' = response
            /\ Len(parts') = Len(parts) + 1
            /\ SubSeq(parts', 1, Len(parts)) = parts]_vars
    /\ [][(pc = "tools" /\ pc' = "model") =>
            /\ results_message' = parts
            /\ Len(results_message') = Len(response)
            /\ \A i \in 1..Len(response) : results_message'[i].name = response[i]]_vars

\* the results of a batch of two different calls are on their way to the model
C11_Witness ==
    /\ pc = "model"
    /\ Len(results_message) = 2
    /\ results_message[1].name # results_message[2].name

\* C12: the exchange ends with an answer exactly when a response carries no
\* function call; the answer recorded is the text of that response; once the
\* exchange is over no tool is invoked and no message is sent to the model.
C12_DoneOnNoCalls ==
    /\ []((pc = "idle" /\ last_outcome = "answered") =>
            /\ ~returned.none
            /\ returned.function_calls = <<>>
            /\ messages[Len(messages)] =
                   [role |-> "assistant", content |-> returned.text])
    /\ [][(pc = "model" /\ pc' = "tools") => response' # <<>>]_vars
    /\ [][(pc' = "idle" /\ ~returned'.none /\ returned.none) =>
            (pc = "model" /\ returned'.function_calls = <<>>)]_vars
    /\ [][pc = "idle" =>
            /\ UNCHANGED <<ledger, next_id, parts, last_call>>
            /\ UNCHANGED <<first_message, results_message, chat_history>>]_vars

\* an exchange has ended with the text of a response that followed a tool round
C12_Witness ==
    /\ pc = "idle"
    /\ last_outcome = "answered"
    /\ tools_run
    /\ returned.text = PyStr("answer")

\* C13: an add_expense call that returns adds exactly one row, which carries
\* the tenant, amount, categories and description of the call and a new
\* identifier; its date is the current date when the call has no date or an
\* empty one and the date of the call otherwise; the text quotes the new id.
C13_AddStoresOneRow ==
    (last_call.name = "add_expense" /\ ~last_call.raised) =>
        /\ last_call.before \subseteq ledger
        /\ Cardinality(ledger \ last_call.before) = 1
        /\ \A r \in ledger \ last_call.before :
            /\ r.user_id = last_call.args.user_id
            /\ r.amount = last_call.args.amount
            /\ r.main_category = last_call.args.main_category
            /\ r.sub_category = last_call.args.sub_category
            /\ r.description = last_call.args.description
            /\ r.date = IF last_call.args.date \in {NoDate, ""}
                        THEN Today ELSE last_call.args.date
            /\ \A old \in last_call.before : old.id # r.id
            /\ last_call.result.text = "Saved. ID: "
            /\ last_call.result.id = r.id

\* add_expense has stored a second row, from a call with an empty date, next to
\* a row that was stored with a date of its own
C13_Witness ==
    /\ last_call.name = "add_expense"
    /\ ~last_call.raised
    /\ last_call.args.date = ""
    /\ \E r \in last_call.before : r.date \in Dates

\* C14: a run_secure_query call whose sql_logic has no LIMIT clause (none of
\* SqlLogics has one) returns no more than the default maximum of 20 rows.
C14_DefaultRowLimit ==
    last_call.name = "run_secure_query" =>
        Cardinality(last_call.result.rows) <= 20

\* C15: a storage error during a call of any tool is caught inside the tool
\* function and comes back as the text the function returns; no exception
\* leaves the function.
C15_StorageErrorsCaught ==
    (last_call.name \in ServerTools /\ last_call.fault # "none") =>
        /\ ~last_call.raised
        /\ last_call.result.text \in
               {"Error: This tool is for Read-Only analysis.", "Query Error", "Error: "}

\* the rows other tenants than tenant can hold under the identifiers ids
RowsOfOthers(tenant, ids) ==
    {Row(i, t, a, "Food", "Dining", "lunch", Today) :
        i \in ids, t \in Tenants \ {tenant}, a \in Amounts \cup {5}}

\* the ledgers that hold the rows of tenant that rows holds, and any rows of
\* other tenants under the remaining identifiers
LedgersAlike(rows, tenant) ==
    LET own  == {r \in rows : r.user_id = tenant}
        free == (1..MaxIds) \ {r.id : r \in own}
    IN  {own \cup others : others \in
            {o \in SUBSET RowsOfOthers(tenant, free) :
                \A r1, r2 \in o : r1.id = r2.id => r1 = r2}}

\* C16: what a delete_expense call of a tenant returns, and what it leaves of
\* that tenant's rows, is the same on every ledger that differs only in the
\* rows of other tenants: an identifier of another tenant's row is answered
\* like one that does not exist.
C16_DeleteTellsNothing ==
    last_call.name = "delete_expense" =>
        \A other \in LedgersAlike(last_call.before, last_call.args.user_id) :
            LET there == delete_expense(other, last_call.next_before,
                                        last_call.args.user_id,
                                        last_call.args.expense_id, last_call.fault)
            IN  /\ there.raised = last_call.raised
                /\ ~last_call.raised => there.result = last_call.result
                /\ {r \in there.rows : r.user_id = last_call.args.user_id}
                       = {r \in ledger : r.user_id = last_call.args.user_id}

\* delete_expense was called with the identifier of a row of another tenant,
\* on a ledger that holds a row of the caller too
C16_Witness ==
    /\ last_call.name = "delete_expense"
    /\ last_call.fault = "none"
    /\ \E r \in last_call.before :
        r.id = last_call.args.expense_id /\ r.user_id # last_call.args.user_id
    /\ \E r \in last_call.before : r.user_id = last_call.args.user_id
    /\ last_call.result.text = "Error: Expense not found or you don't own it."

\* C19: every call of a tool closes the storage connection it opened before it
\* returns, on every path, so that no connection is left open after any
\* sequence of calls.
C19_ConnectionsReleased ==
    last_call.name \in ServerTools => last_call.conn # "open"

\* C17: while list_tools has not returned in an exchange, no chat exists, no
\* message has been sent to the model and no tool has been called; an exchange
\* that ends in that state has ended with the error, not with an answer.
C17_NoChatBeforeDiscovery ==
    tools = NotListed =>
        /\ pc \in {"idle", "start"}
        /\ ~sent
        /\ ~tools_run
        /\ chat_history = <<>> /\ first_message = ""
        /\ (pc = "idle" /\ exchanges > 0) => last_outcome = "failed"

\* the second exchange of a session has failed before list_tools returned
C17_Witness ==
    /\ pc = "idle"
    /\ tools = NotListed
    /\ last_outcome = "failed"
    /\ Len(messages) = 3

\* C18: when the tool server lists no tool the exchange calls none, and it
\* still gets to the model and can end with the text of the model's response.
C18_NoToolsNoCalls ==
    tools = {} =>
        /\ pc # "tools"
        /\ ~tools_run
        /\ response = <<>> /\ parts = <<>>
        /\ (pc = "idle" /\ last_outcome = "answered") =>
            /\ sent
            /\ ~returned.none
            /\ messages[Len(messages)] =
                   [role |-> "assistant", content |-> returned.text]

\* an exchange with no tool listed has ended with the text of the response
C18_Witness ==
    /\ tools = {}
    /\ pc = "idle"
    /\ last_outcome = "answered"
    /\ returned.text = PyStr("answer")
    /\ ~tools_run

\* C20: the turns recorded are never changed, reordered or removed, only
\* appended to; the first turn is a user turn and every assistant turn comes
\* right after a user turn, after failed exchanges as well.
C20_HistoryAppendOnly ==
    /\ [][/\ Len(messages') >= Len(messages)
          /\ SubSeq(messages', 1, Len(messages)) = messages]_vars
    /\ [](/\ messages # <<>> => messages[1].role = "user"
          /\ \A i \in 1..Len(messages) :
                messages[i].role = "assistant" =>
                    (i > 1 /\ messages[i - 1].role = "user"))

\* an answer has been appended after the prompt of an exchange that failed and
\* the prompt of the next one
C20_Witness ==
    /\ pc = "idle"
    /\ Len(messages) = 3
    /\ messages[2].role = "user"
    /\ messages[3].role = "assistant"
    /\ Len(turns_before) = 1

\* the row of the ledger before the last call that the call names and that
\* its user_id owns
OwnRowNamed ==
    {r \in last_call.before :
        r.id = last_call.args.expense_id /\ r.user_id = last_call.args.user_id}

\* C21: a delete_expense call that names a row of its own tenant and meets no
\* storage error removes that one row and no other, leaves every other row as
\* it was and returns the success text; the same call made again returns the
\* not-found text and leaves the ledger as it is.
C21_DeleteOwnRow ==
    (last_call.name = "delete_expense" /\ last_call.fault = "none"
        /\ OwnRowNamed # {}) =>
        /\ Cardinality(OwnRowNamed) = 1
        /\ ledger = last_call.before \ OwnRowNamed
        /\ Cardinality(ledger) = Cardinality(last_call.before) - 1
        /\ next_id = last_call.next_before
        /\ last_call.result.text = "Expense deleted successfully."
        /\ LET again == delete_expense(ledger, next_id, last_call.args.user_id,
                                       last_call.args.expense_id, "none")
           IN  /\ again.result.text = "Error: Expense not found or you don't own it."
               /\ again.rows = ledger
               /\ ~again.raised

\* a tenant has deleted one of its rows from a ledger that held a row of
\* another tenant too
C21_Witness ==
    /\ last_call.name = "delete_expense"
    /\ last_call.fault = "none"
    /\ OwnRowNamed # {}
    /\ \E r \in ledger : r.user_id # last_call.args.user_id

====
